---- MODULE Spec2Model ----
(***************************************************************************)
(* Model of web/pages/Character/CharacterSchema.tsx: the editor of a       *)
(* structured-response schema and of its response and history templates.  *)
(*                                                                         *)
(* A string is a sequence of one-character strings, so that slicing,       *)
(* matching, splitting and joining are computed character by character.    *)
(***************************************************************************)
EXTENDS Integers, Sequences, FiniteSets, TLC

\* ------------------------------------------------------------------ bounds

\* Longest text a buffer may hold in the session specification.
MaxLen == 6

\* Most handlers one session runs.
MaxSteps == 6

\* ----------------------------------------------------------------- strings

LB == "{"

RB == "}"

Min(a, b) == IF a < b THEN a ELSE b

Max(a, b) == IF a > b THEN a ELSE b

\* All strings over alphabet A of length at most n.
StringsUpTo(A, n) == UNION {[1..k -> A] : k \in 0..n}

\* String.prototype.slice(from, to) with 0-based offsets: a negative offset
\* counts from the end, and both are clamped to the string.
JsIndex(s, k) == IF k < 0 THEN Max(Len(s) + k, 0) ELSE Min(k, Len(s))

Slice(s, from, to) == SubSeq(s, JsIndex(s, from) + 1, JsIndex(s, to))

SliceFrom(s, from) == Slice(s, from, Len(s))

\* String.prototype.endsWith / startsWith.
EndsWith(s, suffix) ==
    /\ Len(suffix) <= Len(s)
    /\ SubSeq(s, Len(s) - Len(suffix) + 1, Len(s)) = suffix

StartsWith(s, prefix) ==
    /\ Len(prefix) <= Len(s)
    /\ SubSeq(s, 1, Len(prefix)) = prefix

\* Whether pat occurs in s at 1-based position i.
OccursAt(s, pat, i) ==
    /\ i >= 1
    /\ i + Len(pat) - 1 <= Len(s)
    /\ SubSeq(s, i, i + Len(pat) - 1) = pat

\* Array.prototype.join(sep).
RECURSIVE Join(_, _)
Join(parts, sep) ==
    IF Len(parts) = 0 THEN <<>>
    ELSE IF Len(parts) = 1 THEN parts[1]
    ELSE parts[1] \o sep \o Join(Tail(parts), sep)

\* String.prototype.split(pat) for a non-empty pat: the pieces between the
\* leftmost non-overlapping occurrences of pat.
RECURSIVE SplitFrom(_, _, _, _)
SplitFrom(s, pat, i, start) ==
    IF i + Len(pat) - 1 > Len(s) THEN <<SubSeq(s, start, Len(s))>>
    ELSE IF OccursAt(s, pat, i)
         THEN <<SubSeq(s, start, i - 1)>>
                  \o SplitFrom(s, pat, i + Len(pat), i + Len(pat))
         ELSE SplitFrom(s, pat, i + 1, start)

Split(s, pat) == SplitFrom(s, pat, 1, 1)

\* ------------------------------------------------------ placeholder grammar

IsBrace(c) == c = LB \/ c = RB

\* A placeholder token around a name.
Token(name) == <<LB, LB>> \o name \o <<RB, RB>>

\* The first brace of s at or after position i, Len(s) + 1 when there is none.
RECURSIVE NextBrace(_, _)
NextBrace(s, i) ==
    IF i > Len(s) \/ IsBrace(s[i]) THEN i ELSE NextBrace(s, i + 1)

\* One attempt of the pattern {{[^{}]+}} at position i: the position of the
\* match's last character, 0 when the pattern does not match there.  The
\* name run is greedy; giving characters back never helps, since the
\* character after a shorter run is no brace.
MatchEnd(s, i) ==
    IF OccursAt(s, <<LB, LB>>, i)
    THEN LET j == NextBrace(s, i + 2)
         IN  IF j > i + 2 /\ OccursAt(s, <<RB, RB>>, j) THEN j + 1 ELSE 0
    ELSE 0

\* text.match(JSON_NAME_RE()): the global, leftmost, non-overlapping matches.
\* JavaScript returns null when there is none; null is <<>> here, and the
\* code's truthiness test of the result is the test for a non-empty list.
RECURSIVE MatchFrom(_, _)
MatchFrom(s, i) ==
    IF i > Len(s) THEN <<>>
    ELSE LET e == MatchEnd(s, i)
         IN  IF e > 0 THEN <<SubSeq(s, i, e)>> \o MatchFrom(s, e + 1)
             ELSE MatchFrom(s, i + 1)

JsonNameMatch(s) == MatchFrom(s, 1)

\* ---------------------------------------------- validation effect (85-113)

\* MatchName with the closing braces cut one character short.
MatchNameKeepingBrace(res) == Slice(res, 2, -1)

\* The name the loop takes from a match: res.slice(2, -2).
MatchName(res) == Slice(res, 2, -2)

\* The loop over the matches: the names not in the set, in order, duplicates
\* kept.
RECURSIVE BadNames(_, _)
BadNames(matches, names) ==
    IF Len(matches) = 0 THEN <<>>
    ELSE LET name == MatchName(Head(matches))
         IN  (IF name \in names THEN <<>> ELSE <<name>>)
                 \o BadNames(Tail(matches), names)

\* bad.length ? bad.join(', ') : ''
ErrText(bad) == IF Len(bad) > 0 THEN Join(bad, <<",", " ">>) ELSE <<>>

\* new Set(sch.map((s) => s.name))
FieldNames(sch) == {sch[i].name : i \in DOMAIN sch}

\* The error text the effect stores for one buffer: recomputed when the
\* buffer has a match, left as it was when it has none.
BufferErr(text, names, old) ==
    LET found == JsonNameMatch(text)
    IN  IF Len(found) > 0 THEN ErrText(BadNames(found, names)) ELSE old

\* One run of the effect on the signals s.
PlaceholderEffect(s) ==
    LET names == FieldNames(s.candidate)
    IN  [s EXCEPT !.resErr = BufferErr(s.response, names, s.resErr),
                  !.histErr = BufferErr(s.hist, names, s.histErr)]

\* A signal write outside a batch runs the effects that read the signal
\* before it returns; writing an equal string notifies nobody, an array is
\* compared by reference and a new array always notifies.
SetResponse(s, v) ==
    IF v = s.response THEN s ELSE PlaceholderEffect([s EXCEPT !.response = v])

SetHistory(s, v) ==
    IF v = s.hist THEN s ELSE PlaceholderEffect([s EXCEPT !.hist = v])

SetCandidate(s, v) == PlaceholderEffect([s EXCEPT !.candidate = v])

\* ------------------------------------------- onFieldNameChange (115-123)

\* RenameText replacing the first occurrence only, as String.replace does.
RenameFirstOnly(text, from, to) ==
    LET parts == Split(text, Token(from))
    IN  IF Len(parts) <= 1 THEN text
        ELSE parts[1] \o Token(to) \o Join(Tail(parts), Token(from))

\* text.split(`{{${from}}}`).join(`{{${to}}}`)
RenameText(text, from, to) == Join(Split(text, Token(from)), Token(to))

\* ------------------------------------------------- onAutoComplete (125-158)

\* NormalizeBefore without its tests of the braces already there.
NormalizeBeforeAlwaysAppending(before) == before \o <<LB, LB>>

\* The left boundary (133-139).
NormalizeBefore(before) ==
    IF EndsWith(before, <<LB, LB>>) THEN before
    ELSE IF EndsWith(before, <<LB>>) THEN before \o <<LB>>
    ELSE before \o <<LB, LB>>

\* NormalizeAfter without its test of the brace already there.
NormalizeAfterAlwaysPrefixing(after) == <<RB, RB>> \o after

\* The right boundary (141-143).
NormalizeAfter(after) ==
    IF ~StartsWith(after, <<RB>>) THEN <<RB, RB>> \o after ELSE after

\* InsertPlaceholder leaving the caret after the closing braces.
InsertPlaceholderCaretPastToken(prev, selectionStart, isHotkey, label) ==
    LET before == NormalizeBefore(
                      Slice(prev, 0, selectionStart - (IF isHotkey THEN 0 ELSE 1)))
        after == NormalizeAfter(SliceFrom(prev, selectionStart))
    IN  [value |-> before \o label \o after,
         selectionStart |-> Len(before) + Len(label) + 2]

\* The text and the caret the handler leaves in the textarea.
InsertPlaceholder(prev, selectionStart, isHotkey, label) ==
    LET before == NormalizeBefore(
                      Slice(prev, 0, selectionStart - (IF isHotkey THEN 0 ELSE 1)))
        after == NormalizeAfter(SliceFrom(prev, selectionStart))
    IN  [value |-> before \o label \o after,
         selectionStart |-> Len(before) + Len(label)]

\* ------------------------------------------------------------ session state

VARIABLES
    show,        \* signal show: the editor modal is open
    showImport,  \* signal showImport: the import modal is open
    schema,      \* signal schema: the fields handed to JsonSchema as inherit
    response,    \* signal response
    hist,        \* signal hist
    candidate,   \* signal candidate
    auto,        \* signal auto: "", "response" or "history"
    hotkey,      \* signal hotkey
    resErr,      \* signal resErr
    histErr,     \* signal histErr
    respRef,     \* the response textarea: [value, selectionStart]
    histRef,     \* the history textarea: [value, selectionStart]
    inherit,     \* props.inherit: <<>> when undefined, else <<ResponseSchema>>
    committed,   \* the last argument of props.update, <<>> before any call
    updated,     \* whether the last handler called props.update
    pending,     \* the file an import is reading, <<>> when none
    fields,      \* the field list the JsonSchema form holds
    lastOp,      \* the handler that ran last
    steps,       \* the number of handlers run so far
    fn           \* input and result of the pure-function specifications

vars == <<show, showImport, schema, response, hist, candidate, auto, hotkey,
          resErr, histErr, respRef, histRef, inherit, committed, updated,
          pending, fields, lastOp, steps, fn>>

\* The signals the validation effect reads and writes.
Signals ==
    [response |-> response, hist |-> hist, candidate |-> candidate,
     resErr |-> resErr, histErr |-> histErr]

\* ------------------------------------------------------------------ inputs

NameA == <<"a">>

NameB == <<"b">>

SessionNames == {NameA, NameB}

\* A JsonField; "string" stands for its type object.
Field(name) == [name |-> name, type |-> "string"]

\* The texts a user sets a buffer to in one input event.
TextInputs == {<<>>, Token(NameA), Token(NameB)}

\* The field lists the JsonSchema form delivers: it keeps names distinct.
FieldLists ==
    {<<>>, <<Field(NameA)>>, <<Field(NameB)>>, <<Field(NameA), Field(NameB)>>}

\* The values of props.inherit a session is constructed with.
InheritInputs ==
    {<<>>,
     <<[schema |-> <<Field(NameA)>>, response |-> Token(NameA),
        history |-> Token(NameB)]>>}

\* An uploaded file: whether it parses, the JavaScript type of each key of
\* the parsed value, and the values.
Doc(parses, shape, resp, his, sch) ==
    [parses |-> parses, shape |-> shape, response |-> resp, history |-> his,
     schema |-> sch]

GoodShape == [response |-> "string", history |-> "string", schema |-> "array"]

ImportDocs ==
    {Doc(TRUE, GoodShape, Token(NameB), <<>>, <<Field(NameB)>>),
     Doc(TRUE, GoodShape, <<>>, Token(NameA), <<Field(NameA), Field(NameA)>>),
     Doc(FALSE, GoodShape, <<>>, <<>>, <<>>),
     Doc(TRUE, [GoodShape EXCEPT !.history = "undefined"], Token(NameA), <<>>,
         <<Field(NameA)>>),
     Doc(TRUE, GoodShape, Token(NameA), <<>>,
         <<[name |-> NameA, type |-> "undefined"]>>)}

\* The parsed file handed on without its history text.
DocJsonWithoutHistory(doc) ==
    [schema |-> doc.schema, response |-> doc.response, history |-> <<>>]

\* The ResponseSchema a parsed file is: json itself is handed on.
DocJson(doc) ==
    [schema |-> doc.schema, response |-> doc.response, history |-> doc.history]

\* ------------------------------------------------------------ construction

\* props.inherit?.x || fallback
InheritOr(inh, key, fallback) == IF Len(inh) = 0 THEN fallback ELSE inh[1][key]

Textarea(value, selectionStart) ==
    [value |-> value, selectionStart |-> selectionStart]

NoFn == [op |-> "none"]

\* The component after its first render: the signals of lines 55-70, the
\* textareas showing props.inherit's texts, and the validation effect run
\* once.
InitSession(inh) ==
    LET s == PlaceholderEffect(
                 [response |-> InheritOr(inh, "response", <<>>),
                  hist |-> InheritOr(inh, "history", <<>>),
                  candidate |-> <<>>, resErr |-> <<>>, histErr |-> <<>>])
    IN  /\ show = FALSE
        /\ showImport = FALSE
        /\ schema = InheritOr(inh, "schema", <<>>)
        /\ response = s.response
        /\ hist = s.hist
        /\ candidate = s.candidate
        /\ auto = ""
        /\ hotkey = FALSE
        /\ resErr = s.resErr
        /\ histErr = s.histErr
        /\ respRef = Textarea(s.response, Len(s.response))
        /\ histRef = Textarea(s.hist, Len(s.hist))
        /\ inherit = inh
        /\ committed = <<>>
        /\ updated = FALSE
        /\ pending = <<>>
        /\ fields = InheritOr(inh, "schema", <<>>)
        /\ lastOp = "init"
        /\ steps = 0

Init ==
    /\ \E inh \in InheritInputs : InitSession(inh)
    /\ fn = NoFn

\* ---------------------------------------------------------------- handlers

\* A handler ran: sessions of at most MaxSteps handlers are explored.
Ran(op) ==
    /\ steps < MaxSteps
    /\ lastOp' = op
    /\ steps' = steps + 1

WriteSignals(s) ==
    /\ response' = s.response
    /\ hist' = s.hist
    /\ candidate' = s.candidate
    /\ resErr' = s.resErr
    /\ histErr' = s.histErr

\* The textarea a buffer name stands for, and the signal write of its
\* onInputText and onSelect.
RefOf(buf) == IF buf = "history" THEN histRef ELSE respRef

SetBuffer(buf, s, v) ==
    IF buf = "history" THEN SetHistory(s, v) ELSE SetResponse(s, v)

WriteRef(buf, r) ==
    IF buf = "history"
    THEN histRef' = r /\ UNCHANGED respRef
    ELSE respRef' = r /\ UNCHANGED histRef

\* close committing the schema signal, the form's fields as last committed
\* or inherited, in place of the candidate fields.
CloseCommittingSchemaSignal(s, save) ==
    /\ IF save
       THEN /\ committed' = <<[history |-> s.hist, response |-> s.response,
                               schema |-> schema]>>
            /\ schema' = s.candidate
            /\ fields' = s.candidate
       ELSE UNCHANGED <<committed, schema, fields>>
    /\ updated' = save
    /\ WriteSignals([s EXCEPT !.resErr = <<>>, !.histErr = <<>>])
    /\ show' = FALSE

\* close(save) (173-195) on the signals s; with save it hands the triple to
\* props.update, and to the character and preset stores when the component
\* has their ids, and setSchema makes the form take the candidate fields.
Close(s, save) ==
    /\ IF save
       THEN /\ committed' = <<[history |-> s.hist, response |-> s.response,
                               schema |-> s.candidate]>>
            /\ schema' = s.candidate
            /\ fields' = s.candidate
       ELSE UNCHANGED <<committed, schema, fields>>
    /\ updated' = save
    /\ WriteSignals([s EXCEPT !.resErr = <<>>, !.histErr = <<>>])
    /\ show' = FALSE

\* "Update Schema" (231); lastOp tells a re-open right after a Cancel from any
\* other opening.
OpenModal ==
    /\ Ran(IF lastOp = "cancel" THEN "reopen" ELSE "open")
    /\ ~show /\ ~showImport
    /\ show' = TRUE
    /\ updated' = FALSE
    /\ UNCHANGED <<showImport, schema, response, hist, candidate, auto, hotkey,
                   resErr, histErr, respRef, histRef, inherit, committed,
                   pending, fields, fn>>

\* RootModal's own close (237): setShow(false) and nothing else.
DismissModal ==
    /\ Ran("dismiss")
    /\ show
    /\ show' = FALSE
    /\ updated' = FALSE
    /\ UNCHANGED <<showImport, schema, response, hist, candidate, auto, hotkey,
                   resErr, histErr, respRef, histRef, inherit, committed,
                   pending, fields, fn>>

\* Cancel saving as Accept does.
CancelSaving ==
    /\ Ran("cancel")
    /\ show
    /\ Close(Signals, TRUE)
    /\ UNCHANGED <<showImport, auto, hotkey, respRef, histRef, inherit,
                   pending, fn>>

\* The Cancel button (240): close(false).
Cancel ==
    /\ Ran("cancel")
    /\ show
    /\ Close(Signals, FALSE)
    /\ UNCHANGED <<showImport, auto, hotkey, respRef, histRef, inherit,
                   pending, fn>>

\* The Save / Accept button (243): close(true).
Accept ==
    /\ Ran("accept")
    /\ show
    /\ Close(Signals, TRUE)
    /\ UNCHANGED <<showImport, auto, hotkey, respRef, histRef, inherit,
                   pending, fn>>

\* onInputText (298, 339): the user replaces a buffer's text by t.
InputText(buf, t) ==
    /\ Ran("input")
    /\ show
    /\ t # RefOf(buf).value
    /\ WriteRef(buf, Textarea(t, Len(t)))
    /\ WriteSignals(SetBuffer(buf, Signals, t))
    /\ updated' = FALSE
    /\ UNCHANGED <<show, showImport, schema, auto, hotkey, inherit, committed,
                   pending, fields, fn>>

\* The user moves the caret of a buffer while no suggestion list is open;
\* no handler of the component runs.
MoveCaret(buf, c) ==
    /\ Ran("caret")
    /\ show
    /\ auto = ""
    /\ c \in 0..Len(RefOf(buf).value)
    /\ c # RefOf(buf).selectionStart
    /\ WriteRef(buf, Textarea(RefOf(buf).value, c))
    /\ updated' = FALSE
    /\ UNCHANGED <<show, showImport, schema, response, hist, candidate, auto,
                   hotkey, resErr, histErr, inherit, committed, pending,
                   fields, fn>>

\* KeyBrace leaving the trigger as it was.
KeyBraceWithoutTrigger(buf) ==
    LET prev == IF buf = "history" THEN histRef.value ELSE respRef.value
        c == IF buf = "history" THEN histRef.selectionStart
             ELSE respRef.selectionStart
        next == SubSeq(prev, 1, c) \o <<LB>> \o SubSeq(prev, c + 1, Len(prev))
        op == IF buf = "history" THEN "braceHistory" ELSE "braceResponse"
    IN  /\ Ran(op)
        /\ show
        /\ Len(next) <= MaxLen
        /\ WriteRef(buf, Textarea(next, c + 1))
        /\ WriteSignals(SetBuffer(buf, Signals, next))
        /\ updated' = FALSE
        /\ UNCHANGED <<show, showImport, schema, auto, hotkey, inherit,
                       committed, pending, fields, fn>>

\* The labels of the two key handlers of a buffer's textarea.
BraceOp(buf) == IF buf = "history" THEN "braceHistory" ELSE "braceResponse"

HotkeyOp(buf) == IF buf = "history" THEN "hotkeyHistory" ELSE "hotkeyResponse"

\* The user types "{" at the caret of a buffer: onKeyDown (281, 318) opens
\* the suggestions, then the input event delivers the text with the brace.
KeyBrace(buf) ==
    LET prev == RefOf(buf).value
        c == RefOf(buf).selectionStart
        next == SubSeq(prev, 1, c) \o <<LB>> \o SubSeq(prev, c + 1, Len(prev))
    IN  /\ Ran(BraceOp(buf))
        /\ show
        /\ Len(next) <= MaxLen
        /\ auto' = buf
        /\ WriteRef(buf, Textarea(next, c + 1))
        /\ WriteSignals(SetBuffer(buf, Signals, next))
        /\ updated' = FALSE
        /\ UNCHANGED <<show, showImport, schema, hotkey, inherit, committed,
                       pending, fields, fn>>

\* Ctrl+Space in a buffer (282-285, 319-322).
KeyHotkey(buf) ==
    /\ Ran(HotkeyOp(buf))
    /\ show
    /\ hotkey' = TRUE
    /\ auto' = buf
    /\ updated' = FALSE
    /\ UNCHANGED <<show, showImport, schema, response, hist, candidate,
                   resErr, histErr, respRef, histRef, inherit, committed,
                   pending, fields, fn>>

\* The suggestion list is dismissed (270, 308): setAuto('').
AutoCompleteClose ==
    /\ Ran("dismissList")
    /\ show
    /\ auto # ""
    /\ auto' = ""
    /\ updated' = FALSE
    /\ UNCHANGED <<show, showImport, schema, response, hist, candidate, hotkey,
                   resErr, histErr, respRef, histRef, inherit, committed,
                   pending, fields, fn>>

\* onAutoComplete (125-158): a suggestion of the open list is selected.  The
\* list of a buffer is rendered only while auto names that buffer, so the
\* setter is that buffer's; the options are the candidate fields' names.
AutoCompleteSelect(label) ==
    LET r == InsertPlaceholder(RefOf(auto).value, RefOf(auto).selectionStart,
                               hotkey, label)
    IN  /\ Ran("select")
        /\ show
        /\ auto # ""
        /\ label \in FieldNames(candidate)
        /\ Len(r.value) <= MaxLen
        /\ WriteRef(auto, r)
        /\ WriteSignals(SetBuffer(auto, Signals, r.value))
        /\ hotkey' = FALSE
        /\ auto' = ""
        /\ updated' = FALSE
        /\ UNCHANGED <<show, showImport, schema, inherit, committed, pending,
                       fields, fn>>

\* The form's update callback (346) after the user adds or removes fields.
FieldsUpdate(ev) ==
    /\ Ran("fields")
    /\ show
    /\ ev # fields
    /\ fields' = ev
    /\ WriteSignals(SetCandidate(Signals, ev))
    /\ updated' = FALSE
    /\ UNCHANGED <<show, showImport, schema, auto, hotkey, respRef, histRef,
                   inherit, committed, pending, fn>>

\* onFieldNameChange rewriting the response text only.
OnFieldNameChangeResponseOnly(s, from, to) ==
    SetResponse(s, RenameText(s.response, from, to))

\* onFieldNameChange(from, to) (115-123) on the signals s: both texts are
\* rewritten from the signals, response written first.
OnFieldNameChange(s, from, to) ==
    LET res == RenameText(s.response, from, to)
        his == RenameText(s.hist, from, to)
    IN  SetHistory(SetResponse(s, res), his)

\* The user renames field i of the form to `to`: the form calls onNameChange
\* (347) and then delivers its field list through update (346).  Assigning
\* a textarea's value leaves its caret at the end.
FieldRename(i, to) ==
    LET from == fields[i].name
        next == [fields EXCEPT ![i].name = to]
        s == OnFieldNameChange(Signals, from, to)
    IN  /\ Ran("rename")
        /\ show
        /\ to # from
        /\ to \notin FieldNames(fields)
        /\ Len(s.response) <= MaxLen
        /\ Len(s.hist) <= MaxLen
        /\ respRef' = Textarea(s.response, Len(s.response))
        /\ histRef' = Textarea(s.hist, Len(s.hist))
        /\ fields' = next
        /\ WriteSignals(SetCandidate(s, next))
        /\ updated' = FALSE
        /\ UNCHANGED <<show, showImport, schema, auto, hotkey, inherit,
                       committed, pending, fn>>

\* The Import button (212).
ImportOpen ==
    /\ Ran("importOpen")
    /\ ~show /\ ~showImport
    /\ showImport' = TRUE
    /\ updated' = FALSE
    /\ UNCHANGED <<show, schema, response, hist, candidate, auto, hotkey,
                   resErr, histErr, respRef, histRef, inherit, committed,
                   pending, fields, fn>>

\* The import modal's Close (386): importSchema(undefined) (160-164).
ImportClose ==
    /\ Ran("importClose")
    /\ showImport
    /\ showImport' = FALSE
    /\ updated' = FALSE
    /\ UNCHANGED <<show, schema, response, hist, candidate, auto, hotkey,
                   resErr, histErr, respRef, histRef, inherit, committed,
                   pending, fields, fn>>

\* onUpdate (360-365) up to its await: a file is chosen and is being read.
ImportPick(doc) ==
    /\ Ran("importPick")
    /\ showImport
    /\ pending = <<>>
    /\ pending' = <<doc>>
    /\ updated' = FALSE
    /\ UNCHANGED <<show, showImport, schema, response, hist, candidate, auto,
                   hotkey, resErr, histErr, respRef, histRef, inherit,
                   committed, fields, fn>>

\* The try block of onUpdate (364-372) passes: JSON.parse, the shape of the
\* document, and the shape of each schema entry.
ValidImport(doc) ==
    /\ doc.parses
    /\ doc.shape.response = "string"
    /\ doc.shape.history = "string"
    /\ doc.shape.schema = "array"
    /\ \A i \in DOMAIN doc.schema : doc.schema[i].type # "undefined"

\* importSchema leaving the history text as it was.
ImportSchemaKeepingHistory(json) ==
    /\ Ran("import")
    /\ showImport' = FALSE
    /\ Close(SetResponse(SetCandidate(Signals, json.schema), json.response),
             TRUE)

\* importSchema(json) (160-171).
ImportSchema(json) ==
    /\ Ran("import")
    /\ showImport' = FALSE
    /\ Close(SetResponse(SetHistory(SetCandidate(Signals, json.schema),
                                    json.history),
                         json.response),
             TRUE)

\* ImportRejected closing the import modal as well, as a success does.
ImportRejectedClosing(doc) ==
    /\ Ran("importFailed")
    /\ updated' = FALSE
    /\ showImport' = FALSE
    /\ UNCHANGED <<show, schema, response, hist, candidate, resErr, histErr,
                   committed, fields>>

\* The catch of onUpdate (375-377): an error toast, and nothing else.
ImportRejected(doc) ==
    /\ Ran("importFailed")
    /\ updated' = FALSE
    /\ UNCHANGED <<show, showImport, schema, response, hist, candidate,
                   resErr, histErr, committed, fields>>

\* onUpdate after its await (366-377).
ImportResolve ==
    /\ pending # <<>>
    /\ IF ValidImport(pending[1])
       THEN ImportSchema(DocJson(pending[1]))
       ELSE ImportRejected(pending[1])
    /\ pending' = <<>>
    /\ UNCHANGED <<auto, hotkey, respRef, histRef, inherit, fn>>

\* A textarea whose value prop becomes v.
TextareaShowing(r, v) == IF r.value = v THEN r ELSE Textarea(v, Len(v))

\* The parent answers props.update by passing the value back as
\* props.inherit: the effect of lines 72-83 runs, and the textareas take the
\* texts of their value props (297, 338).
InheritChange ==
    LET next == committed[1]
        s == SetResponse(SetHistory(Signals, next.history), next.response)
    IN  /\ Ran("inherit")
        /\ updated
        /\ inherit # committed
        /\ inherit' = committed
        /\ schema' = next.schema
        /\ fields' = next.schema
        /\ WriteSignals(s)
        /\ respRef' = TextareaShowing(respRef, next.response)
        /\ histRef' = TextareaShowing(histRef, next.history)
        /\ updated' = FALSE
        /\ UNCHANGED <<show, showImport, auto, hotkey, committed, pending, fn>>

Buffers == {"response", "history"}

Next ==
    \/ OpenModal
    \/ DismissModal
    \/ Cancel
    \/ Accept
    \/ \E buf \in Buffers, t \in TextInputs : InputText(buf, t)
    \/ \E buf \in Buffers, c \in 0..MaxLen : MoveCaret(buf, c)
    \/ \E buf \in Buffers : KeyBrace(buf)
    \/ \E buf \in Buffers : KeyHotkey(buf)
    \/ AutoCompleteClose
    \/ \E label \in SessionNames : AutoCompleteSelect(label)
    \/ \E ev \in FieldLists : FieldsUpdate(ev)
    \/ \E i \in DOMAIN fields, to \in SessionNames : FieldRename(i, to)
    \/ ImportOpen
    \/ ImportClose
    \/ \E doc \in ImportDocs : ImportPick(doc)
    \/ ImportResolve
    \/ InheritChange

Spec == Init /\ [][Next]_vars

\* ------------------------------------------- pure-function specifications

\* The session stays as constructed while a function is applied.
Session ==
    <<show, showImport, schema, response, hist, candidate, auto, hotkey,
      resErr, histErr, respRef, histRef, inherit, committed, updated,
      pending, fields, lastOp, steps>>

\* The concatenation of a sequence of strings.
Flatten(parts) == Join(parts, <<>>)

\* The texts made of at most n pieces of P.
TextsOf(P, n) == {Flatten(ps) : ps \in StringsUpTo(P, n)}

NameAB == <<"a", "b">>
NameFoo == <<"f", "o", "o">>

\* Most pieces of a text handed to the validator, to the rename and to the
\* insertion.
MaxValidatePieces == 4
MaxRenamePieces == 3
MaxInsertPieces == 3

ValidatePieces ==
    {Token(NameA), Token(NameB), <<LB, LB>>, <<RB, RB>>, <<LB>>, <<RB>>,
     <<"a">>}

\* The validator: the loop of the effect over the matches of a text, against
\* a set of valid names, and the error text the effect stores for the text.
InitValidate ==
    /\ InitSession(<<>>)
    /\ \E t \in TextsOf(ValidatePieces, MaxValidatePieces),
          V \in SUBSET {NameA, NameB} :
          fn = [op |-> "validate", done |-> FALSE, text |-> t, names |-> V,
                out |-> <<>>, err |-> <<>>]

ApplyValidate ==
    /\ fn.op = "validate" /\ ~fn.done
    /\ fn' = [fn EXCEPT !.done = TRUE,
                        !.out = BadNames(JsonNameMatch(fn.text), fn.names),
                        !.err = BufferErr(fn.text, fn.names, <<>>)]
    /\ UNCHANGED Session

SpecValidate == InitValidate /\ [][ApplyValidate]_vars

RenamePieces ==
    {Token(NameA), Token(NameAB), Token(NameB), <<LB, LB>>, <<RB, RB>>,
     <<LB>>, <<"a">>}

RenameHistories == {<<>>, Token(NameA) \o Token(NameA), Token(NameAB)}

RenameFrom == {NameA, NameAB, <<>>}
RenameTo == {NameB, NameA, <<>>}

\* onFieldNameChange on a response text and a history text.
InitRename ==
    /\ InitSession(<<>>)
    /\ \E t \in TextsOf(RenamePieces, MaxRenamePieces), h \in RenameHistories,
          from \in RenameFrom, to \in RenameTo :
          fn = [op |-> "rename", done |-> FALSE, response |-> t, hist |-> h,
                from |-> from, to |-> to, outResponse |-> <<>>,
                outHist |-> <<>>]

ApplyRename ==
    LET s == OnFieldNameChange(
                 [response |-> fn.response, hist |-> fn.hist,
                  candidate |-> <<>>, resErr |-> <<>>, histErr |-> <<>>],
                 fn.from, fn.to)
    IN  /\ fn.op = "rename" /\ ~fn.done
        /\ fn' = [fn EXCEPT !.done = TRUE, !.outResponse = s.response,
                            !.outHist = s.hist]
        /\ UNCHANGED Session

SpecRename == InitRename /\ [][ApplyRename]_vars

NameScore == <<"s", "c", "o", "r", "e">>

\* The suggestions selected: opt.label.
InsertLabels == {NameA, NameFoo, NameScore}

InsertPieces == {<<LB, LB>>, <<RB, RB>>, <<LB>>, <<RB>>, <<"a">>}

\* onAutoComplete on a textarea's text and caret.  On the brace-typed path
\* (hotkey false) the list was opened by a typed character, so the caret is
\* past the start unless the text was emptied since.
InitInsert ==
    /\ InitSession(<<>>)
    /\ \E t \in TextsOf(InsertPieces, MaxInsertPieces), hk \in BOOLEAN,
          label \in InsertLabels : \E c \in 0..Len(t) :
          /\ hk \/ c >= 1 \/ t = <<>>
          /\ fn = [op |-> "insert", done |-> FALSE, prev |-> t,
                   selectionStart |-> c, hotkey |-> hk, label |-> label,
                   out |-> Textarea(<<>>, 0)]

ApplyInsert ==
    /\ fn.op = "insert" /\ ~fn.done
    /\ fn' = [fn EXCEPT !.done = TRUE,
                        !.out = InsertPlaceholder(fn.prev, fn.selectionStart,
                                                  fn.hotkey, fn.label)]
    /\ UNCHANGED Session

SpecInsert == InitInsert /\ [][ApplyInsert]_vars

\* Most pieces of a text whose fields are renamed.
MaxFieldPieces == 3

FieldPieces ==
    {Token(NameA), Token(NameB), Token(NameAB), <<LB, LB>>, <<"a">>}

FieldHistories == {<<>>, Token(NameB) \o Token(NameA)}

RenameFieldLists ==
    {<<Field(NameA)>>, <<Field(NameA), Field(NameB)>>,
     <<Field(NameAB), Field(NameA)>>}

RenameFieldTo == {NameB, NameAB, NameFoo}

\* A session whose candidate fields are the form's fields F, with a response
\* and a history text, in which field i is renamed to a name no field has.
InitRenameField ==
    /\ InitSession(<<>>)
    /\ \E t \in TextsOf(FieldPieces, MaxFieldPieces), h \in FieldHistories,
          F \in RenameFieldLists, to \in RenameFieldTo : \E i \in DOMAIN F :
          /\ to \notin FieldNames(F)
          /\ fn = [op |-> "renameField", done |-> FALSE, fields |-> F,
                   index |-> i, to |-> to,
                   in |-> PlaceholderEffect(
                              [response |-> t, hist |-> h, candidate |-> F,
                               resErr |-> <<>>, histErr |-> <<>>]),
                   out |-> <<>>]

\* The rename as FieldRename runs it: onNameChange on both texts, then the
\* form's update with the renamed field list.
ApplyRenameField ==
    LET from == fn.fields[fn.index].name
        next == [fn.fields EXCEPT ![fn.index].name = fn.to]
    IN  /\ fn.op = "renameField" /\ ~fn.done
        /\ fn' = [fn EXCEPT !.done = TRUE,
                            !.out = SetCandidate(
                                        OnFieldNameChange(fn.in, from, fn.to),
                                        next)]
        /\ UNCHANGED Session

SpecRenameField == InitRenameField /\ [][ApplyRenameField]_vars

\* Most pieces of a text of an exported ResponseSchema.
MaxRoundTripPieces == 1

RoundTripPieces == {Token(NameA), Token(NameB), <<LB>>, <<"a">>}

\* The valid ResponseSchema values a parent holds and passes as
\* props.inherit: two strings and an array of fields.
RoundTripInputs ==
    {[schema |-> sch, response |-> r, history |-> h] :
         sch \in FieldLists \cup {<<Field(NameA), Field(NameA)>>},
         r \in TextsOf(RoundTripPieces, MaxRoundTripPieces),
         h \in TextsOf(RoundTripPieces, MaxRoundTripPieces)}

\* downloadJson(value, name): the file holds JSON.stringify(value), which
\* parses, and in which every key that has a value has its type.
ExportDoc(value) ==
    Doc(TRUE,
        [response |-> "string", history |-> "string", schema |-> "array"],
        value.response, value.history, value.schema)

InitRoundTrip ==
    /\ \E s \in RoundTripInputs : InitSession(<<s>>)
    /\ fn = [op |-> "roundTrip", file |-> <<>>]

\* The Export button (215-223): shown while props.inherit is set, it
\* downloads props.inherit.
ExportFile ==
    /\ Ran("export")
    /\ ~show /\ ~showImport
    /\ inherit # <<>>
    /\ fn.op = "roundTrip"
    /\ fn' = [fn EXCEPT !.file = <<ExportDoc(inherit[1])>>]
    /\ updated' = FALSE
    /\ UNCHANGED <<show, showImport, schema, response, hist, candidate, auto,
                   hotkey, resErr, histErr, respRef, histRef, inherit,
                   committed, pending, fields>>

\* The exported file is chosen in the import modal.
ImportExported ==
    /\ fn.op = "roundTrip"
    /\ fn.file # <<>>
    /\ ImportPick(fn.file[1])

SpecRoundTrip ==
    InitRoundTrip
        /\ [][ExportFile \/ ImportOpen \/ ImportExported \/ ImportResolve]_vars

\* ------------------------------------------------------------------ claims

HasBrace(str) == \E k \in DOMAIN str : IsBrace(str[k])

BraceCount(str) == Cardinality({k \in DOMAIN str : IsBrace(str[k])})

\* t[i..j] is a placeholder token: two opening braces, a non-empty name
\* without braces, two closing braces.
IsTokenAt(t, i, j) ==
    /\ i >= 1 /\ j >= i + 4 /\ j <= Len(t)
    /\ t[i] = LB /\ t[i + 1] = LB
    /\ t[j - 1] = RB /\ t[j] = RB
    /\ \A k \in (i + 2)..(j - 2) : ~IsBrace(t[k])

\* The unresolved names of the tokens of t that start at position i or
\* later, in order of occurrence.
RECURSIVE UnresolvedFrom(_, _, _)
UnresolvedFrom(t, V, i) ==
    IF i > Len(t) THEN <<>>
    ELSE LET ends == {j \in i..Len(t) : IsTokenAt(t, i, j)}
             here == {SubSeq(t, i + 2, j - 2) : j \in ends} \ V
         IN  (IF here = {} THEN <<>> ELSE <<CHOOSE n \in here : TRUE>>)
                 \o UnresolvedFrom(t, V, i + 1)

\* C2: the validator's list holds, in order of occurrence and with
\* duplicates, exactly the names of the {{name}} tokens of the text that are
\* not valid names; every listed name is non-empty and without braces, so
\* single-brace text is never listed.
C2_ValidatorListsUnresolvedTokens ==
    (fn.op = "validate" /\ fn.done) =>
        /\ fn.out = UnresolvedFrom(fn.text, fn.names, 1)
        /\ \A k \in DOMAIN fn.out :
               /\ fn.out[k] # <<>>
               /\ ~HasBrace(fn.out[k])
               /\ fn.out[k] \notin fn.names
               /\ \E i \in 1..Len(fn.text) :
                      OccursAt(fn.text, Token(fn.out[k]), i)

\* A text with a resolved token between two occurrences of an unresolved
\* one has been validated.
C2_Witness ==
    /\ fn.op = "validate" /\ fn.done
    /\ fn.text = Token(NameB) \o Token(NameA) \o Token(NameB)
    /\ fn.names = {NameA}
    /\ fn.out = <<NameB, NameB>>

\* The positions at which the token of name A occurs in t.
Occurrences(t, A) == {i \in 1..Len(t) : OccursAt(t, Token(A), i)}

\* How far the rewrite from A to B moves the character at position k of t.
Shift(t, A, B, k) ==
    Cardinality({i \in Occurrences(t, A) : i < k}) * (Len(B) - Len(A))

\* out is t with every token of A relabelled B and nothing else changed.
Relabelled(t, out, A, B) ==
    /\ Len(out) = Len(t) + Cardinality(Occurrences(t, A)) * (Len(B) - Len(A))
    /\ \A i \in Occurrences(t, A) :
           OccursAt(out, Token(B), i + Shift(t, A, B, i))
    /\ \A k \in 1..Len(t) :
           (\A i \in Occurrences(t, A) : k < i \/ k >= i + Len(Token(A)))
               => /\ k + Shift(t, A, B, k) \in DOMAIN out
                  /\ out[k + Shift(t, A, B, k)] = t[k]
    /\ \A i \in 1..Len(t) :
           OccursAt(t, Token(A \o <<"b">>), i)
               => OccursAt(out, Token(A \o <<"b">>), i + Shift(t, A, B, i))
    /\ Occurrences(t, A) = {} => out = t

\* C3: onFieldNameChange(A, B) replaces every occurrence of the token {{A}}
\* by {{B}} in the response and in the history text and leaves every other
\* character as it was; a token {{Ab}} is untouched and a text without
\* {{A}} is unchanged.
C3_RenameRelabelsExactTokens ==
    (fn.op = "rename" /\ fn.done) =>
        /\ Relabelled(fn.response, fn.outResponse, fn.from, fn.to)
        /\ Relabelled(fn.hist, fn.outHist, fn.from, fn.to)

\* A response with two tokens of a around a token of ab, and a history with
\* tokens of a, have been renamed from a to b.
C3_Witness ==
    /\ fn.op = "rename" /\ fn.done
    /\ fn.from = NameA /\ fn.to = NameB
    /\ fn.response = Token(NameA) \o Token(NameAB) \o Token(NameA)
    /\ fn.outResponse = Token(NameB) \o Token(NameAB) \o Token(NameB)
    /\ fn.hist = Token(NameA) \o Token(NameA)
    /\ fn.outHist = Token(NameB) \o Token(NameB)

\* The complete token of the inserted name stands in the new text with the
\* new caret between the name and the closing braces.
TokenAtCaret(r, label) ==
    /\ r.selectionStart >= Len(label) + 2
    /\ OccursAt(r.value, Token(label), r.selectionStart - Len(label) - 1)

\* C6: for every text, caret, name and path, accepting a suggestion leaves
\* the complete token {{name}} at the insertion point, the caret right after
\* the name and right before the closing braces.
C6_InsertionYieldsCompleteToken ==
    (fn.op = "insert" /\ fn.done) => TokenAtCaret(fn.out, fn.label)

\* The caret of the input is right after {{ and right before }}.
InsideEmptyBraces(prev, c) ==
    /\ c >= 2
    /\ OccursAt(prev, <<LB, LB>>, c - 1)
    /\ OccursAt(prev, <<RB, RB>>, c + 1)

\* C7: inserting a name at a caret right after {{ and right before }} leaves
\* the token {{name}} around the caret, the caret right after the name, and
\* no brace more than the text had, on the hotkey path and on the
\* brace-typed path.
C7_InsertionAddsNoBraces ==
    (fn.op = "insert" /\ fn.done /\ InsideEmptyBraces(fn.prev, fn.selectionStart))
        => /\ TokenAtCaret(fn.out, fn.label)
           /\ BraceCount(fn.out.value) <= BraceCount(fn.prev)
           /\ SubSeq(fn.out.value, fn.out.selectionStart + 1,
                     Len(fn.out.value))
                  = SubSeq(fn.prev, fn.selectionStart + 1, Len(fn.prev))

\* A name has been inserted between {{ and }} on the brace-typed path.
C7_Witness ==
    /\ fn.op = "insert" /\ fn.done /\ ~fn.hotkey
    /\ fn.prev = <<LB, LB, RB, RB>> /\ fn.selectionStart = 2
    /\ fn.out.value = Token(fn.label)

\* The input of the insertion from scratch: an empty text, the hotkey path,
\* the name foo.
FromScratch ==
    /\ fn.op = "insert" /\ fn.done
    /\ fn.prev = <<>> /\ fn.selectionStart = 0 /\ fn.hotkey
    /\ fn.label = NameFoo

\* C8 as claimed: insertion from scratch yields {{foo}} with the caret at
\* offset 6.
C8_FromScratchCaretAtSix ==
    FromScratch => (fn.out.value = Token(NameFoo) /\ fn.out.selectionStart = 6)

\* C8: insertion from scratch yields {{foo}} with the caret at offset 5, the
\* length of "{{foo".
C8_FromScratchCaretAtFive ==
    FromScratch => (fn.out.value = Token(NameFoo) /\ fn.out.selectionStart = 5)

\* The insertion from scratch has run.
C8_Witness == FromScratch /\ fn.out.value = Token(NameFoo)

\* The error text a buffer's diagnostics should read: the unresolved names
\* of its text against the candidate fields' names.
FreshErr(text) ==
    ErrText(BadNames(JsonNameMatch(text), FieldNames(candidate)))

\* C1: once a handler has completed, the diagnostics shown for each buffer
\* are those of its current text against the current candidate fields, and
\* are empty exactly when the buffer has no unresolved placeholder.
C1_DiagnosticsAreFresh ==
    show => (resErr = FreshErr(response) /\ histErr = FreshErr(hist))

BaselineTexts ==
    LET base == IF committed # <<>> THEN committed
                ELSE inherit
    IN  IF base = <<>> THEN [response |-> <<>>, history |-> <<>>]
        ELSE [response |-> base[1].response, history |-> base[1].history]

\* C5: an accept that follows a cancel and a re-open, with no edit in
\* between, commits the texts that were committed or inherited before the
\* cancelled edits.
C5_CancelDiscardsEdits ==
    [][(lastOp = "reopen" /\ lastOp' = "accept")
           => /\ committed'[1].response = BaselineTexts.response
              /\ committed'[1].history = BaselineTexts.history]_vars

UniqueNames(sch) ==
    \A i, j \in DOMAIN sch : i # j => sch[i].name # sch[j].name

\* C9: no two fields of the candidate schema, of the schema handed to the
\* form or of the committed schema share a name.
C9_NoTwoFieldsShareAName ==
    /\ UniqueNames(candidate)
    /\ UniqueNames(schema)
    /\ committed # <<>> => UniqueNames(committed[1].schema)

\* A file the import must refuse: it does not parse, or response, history
\* or schema is missing or of the wrong type, or a schema entry lacks its
\* type.
Malformed(doc) ==
    \/ ~doc.parses
    \/ doc.shape.response # "string"
    \/ doc.shape.history # "string"
    \/ doc.shape.schema # "array"
    \/ \E i \in DOMAIN doc.schema : doc.schema[i].type = "undefined"

\* C10: the import of a malformed file ends in the error report and leaves
\* the candidate fields, both texts, the diagnostics, the textareas, the
\* form and the committed value as they were, and calls no props.update.
C10_FailedImportChangesNothing ==
    [][(pending # <<>> /\ pending' = <<>> /\ Malformed(pending[1]))
           => /\ lastOp' = "importFailed"
              /\ ~updated'
              /\ UNCHANGED <<candidate, response, hist, resErr, histErr,
                             respRef, histRef, schema, fields, committed,
                             show, showImport, inherit>>]_vars

\* An import has failed in a session that holds candidate fields, a response
\* text and a committed value.
C10_Witness ==
    /\ lastOp = "importFailed"
    /\ candidate # <<>>
    /\ response # <<>>
    /\ committed # <<>>

\* C11: the step that completes the import of a well-formed file leaves the
\* candidate fields, the response text and the history text equal to the
\* file's, all three at once, and closes the import modal.
C11_ImportReplacesAllThree ==
    [][(pending # <<>> /\ pending' = <<>> /\ ~Malformed(pending[1]))
           => /\ lastOp' = "import"
              /\ candidate' = pending[1].schema
              /\ response' = pending[1].response
              /\ hist' = pending[1].history
              /\ ~showImport']_vars

\* A file has been imported over a session with other fields and texts: the
\* candidate fields and both texts are the file's, the inherited ones differ
\* in all three.
C11_Witness ==
    /\ lastOp = "import"
    /\ inherit # <<>>
    /\ candidate = <<Field(NameB)>> /\ candidate # inherit[1].schema
    /\ response = Token(NameB) /\ response # inherit[1].response
    /\ hist = <<>> /\ hist # inherit[1].history

\* C12: the Accept / Save button hands props.update one value made of the
\* candidate fields, the response text and the history text as they are when
\* it is pressed; after every handler that called props.update the committed
\* value is the triple of the three signals, none of them older.
C12_CommitIsOneTriple ==
    /\ [][lastOp' = "accept"
              => committed' = <<[history |-> hist, response |-> response,
                                 schema |-> candidate]>>]_vars
    /\ [](updated => committed = <<[history |-> hist, response |-> response,
                                    schema |-> candidate]>>)

\* Accept has committed fields and texts that are all other than the
\* inherited ones.
C12_Witness ==
    /\ updated /\ lastOp = "accept"
    /\ inherit # <<>>
    /\ committed[1].schema = <<Field(NameB)>>
    /\ committed[1].response = Token(NameB)
    /\ committed[1].history = <<>>

\* C13: the trigger names no buffer or exactly one of the two; a "{" typed
\* or the hotkey pressed in a buffer leaves the trigger on that buffer,
\* whatever it was on before; selecting a suggestion and dismissing the list
\* both leave it on no buffer, and selecting also clears the hotkey flag.
C13_TriggerIsIdleOrOneBuffer ==
    /\ [](auto \in {"", "response", "history"})
    /\ [][lastOp' \in {"braceResponse", "hotkeyResponse"}
              => auto' = "response"]_vars
    /\ [][lastOp' \in {"braceHistory", "hotkeyHistory"}
              => auto' = "history"]_vars
    /\ [][lastOp' \in {"select", "dismissList"} => auto' = ""]_vars
    /\ [][lastOp' = "select" => ~hotkey']_vars

\* A "{" has been typed in the history text after the hotkey was pressed:
\* the list is the history text's.
C13_Witness ==
    /\ lastOp = "braceHistory"
    /\ hotkey
    /\ auto = "history"
    /\ histRef.value = <<LB>>

\* The names of all placeholder tokens of t, in order of occurrence.
TokenNames(t) == UnresolvedFrom(t, {}, 1)

\* The rename of a field to B kept the references of a text: before is the
\* text against the names N, after the rewritten text against the names M.
ReferencesKept(before, N, after, M, B) ==
    LET NotB(name) == name # B
        was == TokenNames(before)
        now == TokenNames(after)
    IN  /\ Len(now) = Len(was)
        /\ \A k \in DOMAIN was :
               /\ k \in DOMAIN now
               /\ was[k] \in N => now[k] \in M
               /\ (was[k] \notin N /\ was[k] # B)
                      => (now[k] = was[k] /\ now[k] \notin M)
        /\ UnresolvedFrom(after, M, 1)
               = SelectSeq(UnresolvedFrom(before, N, 1), NotB)

\* C14: after a field A is renamed to a name B that no field has, and the
\* fields and both texts are updated, every placeholder that named a field
\* still names one, and the unresolved placeholders are those of before
\* whose name is not B, in the same order.
C14_RenameKeepsReferences ==
    (fn.op = "renameField" /\ fn.done) =>
        /\ ReferencesKept(fn.in.response, FieldNames(fn.fields),
                          fn.out.response, FieldNames(fn.out.candidate),
                          fn.to)
        /\ ReferencesKept(fn.in.hist, FieldNames(fn.fields),
                          fn.out.hist, FieldNames(fn.out.candidate), fn.to)

\* The only field a has been renamed to ab in a response {{a}}{{b}}: b is
\* the one unresolved name before and after.
C14_Witness ==
    /\ fn.op = "renameField" /\ fn.done
    /\ fn.fields = <<Field(NameA)>> /\ fn.to = NameAB
    /\ fn.in.response = Token(NameA) \o Token(NameB)
    /\ fn.out.response = Token(NameAB) \o Token(NameB)
    /\ UnresolvedFrom(fn.in.response, {NameA}, 1) = <<NameB>>
    /\ UnresolvedFrom(fn.out.response, {NameAB}, 1) = <<NameB>>
    /\ fn.out.hist = Token(NameB) \o Token(NameAB)

ShownNames(err) == IF err = <<>> THEN <<>> ELSE Split(err, <<",", " ">>)

\* C16: the error text displayed for a text lists every unresolved name of
\* the text, and lists it once, however often the name occurs in the text.
C16_DiagnosticListsEachNameOnce ==
    (fn.op = "validate" /\ fn.done) =>
        /\ {ShownNames(fn.err)[i] : i \in DOMAIN ShownNames(fn.err)}
               = {fn.out[k] : k \in DOMAIN fn.out}
        /\ \A i, j \in DOMAIN ShownNames(fn.err) :
               i # j => ShownNames(fn.err)[i] # ShownNames(fn.err)[j]

\* The left part of the new text: the text before the caret, without the
\* typed character on the brace-typed path, closed by "{{".
LeftPart(text, c, hk) ==
    LET raw == SubSeq(text, 1, IF hk THEN c ELSE c - 1)
        n == Len(raw)
    IN  IF n >= 2 /\ raw[n] = LB /\ raw[n - 1] = LB THEN raw
        ELSE IF n >= 1 /\ raw[n] = LB THEN raw \o <<LB>>
        ELSE raw \o <<LB, LB>>

\* The right part of the new text: the text from the caret on, with "}}" in
\* front unless it starts with "}".
RightPart(text, c) ==
    LET raw == SubSeq(text, c + 1, Len(text))
    IN  IF Len(raw) >= 1 /\ raw[1] = RB THEN raw ELSE <<RB, RB>> \o raw

\* C17: selecting the name N with the caret at c yields the text
\* before + N + after and the caret at len(before) + len(N), where before is
\* text[0..c) on the hotkey path and text[0..c-1) on the brace-typed path,
\* kept if it ends with "{{", with one "{" appended if it ends with a single
\* "{", with "{{" appended otherwise, and after is text[c..) with "}}" in
\* front unless it starts with "}"; a "{" typed into an empty text followed
\* by the selection of score yields {{score}} with the caret at 7.
C17_InsertionAlgorithm ==
    (fn.op = "insert" /\ fn.done) =>
        /\ fn.out.value = LeftPart(fn.prev, fn.selectionStart, fn.hotkey)
                              \o fn.label
                              \o RightPart(fn.prev, fn.selectionStart)
        /\ fn.out.selectionStart
               = Len(LeftPart(fn.prev, fn.selectionStart, fn.hotkey))
                     + Len(fn.label)
        /\ (fn.prev = <<LB>> /\ fn.selectionStart = 1 /\ ~fn.hotkey
                /\ fn.label = NameScore)
               => fn.out = Textarea(Token(NameScore), 7)

\* score has been selected after a "{" typed into an empty text.
C17_Witness ==
    /\ fn.op = "insert" /\ fn.done /\ ~fn.hotkey
    /\ fn.prev = <<LB>> /\ fn.selectionStart = 1
    /\ fn.label = NameScore
    /\ fn.out = Textarea(Token(NameScore), 7)

\* The rewrite from A to B relabelled the placeholder tokens of a text and
\* did nothing else to them: as many tokens after as before, the k-th named
\* B where it was named A and named as before otherwise.
OnlyRelabelled(before, after, A, B) ==
    LET was == TokenNames(before)
        now == TokenNames(after)
    IN  /\ Len(now) = Len(was)
        /\ \A k \in DOMAIN was :
               k \in DOMAIN now
                   /\ now[k] = (IF was[k] = A THEN B ELSE was[k])

\* C18: for every pair of an old and a new name, the names a field has
\* while its name is being typed included, the rewrite creates no
\* placeholder token and removes none in either text, and leaves the tokens
\* in their order.
C18_RenameOnlyRelabels ==
    (fn.op = "rename" /\ fn.done) =>
        /\ OnlyRelabelled(fn.response, fn.outResponse, fn.from, fn.to)
        /\ OnlyRelabelled(fn.hist, fn.outHist, fn.from, fn.to)

\* The editor was opened on the inherited value and nothing else was done.
OpenedUnedited == steps = 1 /\ lastOp = "open" /\ inherit # <<>>

\* C19: while the editor is open on the inherited value with nothing edited,
\* no inherited field's name is displayed as unresolved, and Accept pressed
\* then commits the inherited fields and texts.
C19_AcceptWithoutEditIsNoOp ==
    /\ [](OpenedUnedited =>
              \A k \in DOMAIN inherit[1].schema :
                  /\ \A i \in DOMAIN ShownNames(resErr) :
                         ShownNames(resErr)[i] # inherit[1].schema[k].name
                  /\ \A i \in DOMAIN ShownNames(histErr) :
                         ShownNames(histErr)[i] # inherit[1].schema[k].name)
    /\ [][(OpenedUnedited /\ lastOp' = "accept")
              => committed' = inherit]_vars

\* C20: the hotkey flag is false whenever no list is open, and a name
\* selected from a list that a typed "{" opened is inserted on the
\* brace-typed path, the typed brace not counted in the text before the
\* caret.
C20_HotkeyFalseWhenIdle ==
    /\ [](auto = "" => ~hotkey)
    /\ [][(lastOp \in {"braceResponse", "braceHistory"} /\ lastOp' = "select")
              => \E label \in FieldNames(candidate) :
                     (IF auto = "history" THEN histRef' ELSE respRef').value
                         = LeftPart(RefOf(auto).value,
                                    RefOf(auto).selectionStart, FALSE)
                               \o label
                               \o RightPart(RefOf(auto).value,
                                            RefOf(auto).selectionStart)]_vars

====
